---- MODULE Spec2Model ----
(***************************************************************************)
(* GedcomParser (gedcom-to-knowledge-graph.py): parse_file, parse_line,    *)
(* format_knowledge and _extract_date.                                     *)
(*                                                                         *)
(* A Python str is a sequence of atoms; an atom is a TLA+ string standing  *)
(* for a fixed run of characters (" " is one space, "@" one at-sign,       *)
(* "INDI" the four letters I,N,D,I, ...).  No atom but "INDI" / "FAM"      *)
(* contains those letters in a row, and no two adjacent atoms spell them,  *)
(* so the substring tests of the code are membership tests on atoms.       *)
(* A Python dict is a sequence of [k, v] pairs in insertion order.         *)
(* Objects live in a heap (a sequence, address = index) so that aliasing   *)
(* between current_entity and the two mappings is modelled as in Python.   *)
(***************************************************************************)
EXTENDS Integers, Sequences, FiniteSets, TLC

VARIABLES individuals, families, heap, current_entity, current_tag,
          pc, stream, read, raised, result, formatRuns, earlier

vars == <<individuals, families, heap, current_entity, current_tag,
          pc, stream, read, raised, result, formatRuns, earlier>>

(***************************************************************************)
(* Bounds                                                                  *)
(***************************************************************************)
MaxLines == 4
MaxFamLines == 5
MaxIndiLines == 5
MaxReuseLines == 2
MaxCalls == 2

(***************************************************************************)
(* Python str helpers                                                      *)
(***************************************************************************)
SP == " "
AT == "@"
EmptyStr == <<>>

DigitAtoms == {"0", "1", "2", "3", "1980"}
SignAtoms == {"-", "+"}

AtomVal(a) ==
  CASE a = "0" -> 0
    [] a = "1" -> 1
    [] a = "2" -> 2
    [] a = "3" -> 3
    [] a = "1980" -> 1980
    [] OTHER -> 0

AtomWidth(a) == IF a = "1980" THEN 10000 ELSE 10

\* str.strip(): drop leading and trailing whitespace
RECURSIVE LStrip(_)
LStrip(s) == IF s # <<>> /\ Head(s) = SP THEN LStrip(Tail(s)) ELSE s

RECURSIVE RStrip(_)
RStrip(s) ==
  IF s # <<>> /\ s[Len(s)] = SP THEN RStrip(SubSeq(s, 1, Len(s) - 1)) ELSE s

Strip(s) == RStrip(LStrip(s))

\* index of the first space of s, 0 when there is none
FirstSpace(s) ==
  IF \E i \in 1..Len(s) : s[i] = SP
  THEN CHOOSE i \in 1..Len(s) : s[i] = SP /\ \A j \in 1..(i - 1) : s[j] # SP
  ELSE 0

\* every field of s cut at single spaces
RECURSIVE SplitAll(_)
SplitAll(s) ==
  LET i == FirstSpace(s) IN
  IF i = 0 THEN <<s>>
  ELSE <<SubSeq(s, 1, i - 1)>> \o SplitAll(SubSeq(s, i + 1, Len(s)))

\* variant: line.split(' ') without the limit of two cuts
Split2_unlimited(line) == SplitAll(line)

\* line.split(' ', 2): at most two cuts, the last field keeps its spaces
Split2(line) ==
  LET i == FirstSpace(line) IN
  IF i = 0 THEN <<line>>
  ELSE LET first == SubSeq(line, 1, i - 1)
           rest == SubSeq(line, i + 1, Len(line))
           j == FirstSpace(rest)
       IN IF j = 0 THEN <<first, rest>>
          ELSE <<first, SubSeq(rest, 1, j - 1), SubSeq(rest, j + 1, Len(rest))>>

\* int(s) succeeds: an optional sign followed by at least one digit
IsInt(s) ==
  LET body == IF s # <<>> /\ Head(s) \in SignAtoms THEN Tail(s) ELSE s
  IN body # <<>> /\ \A i \in 1..Len(body) : body[i] \in DigitAtoms

RECURSIVE DigitsVal(_)
DigitsVal(b) ==
  IF b = <<>> THEN 0
  ELSE DigitsVal(SubSeq(b, 1, Len(b) - 1)) * AtomWidth(b[Len(b)]) + AtomVal(b[Len(b)])

\* int(s) for a string that IsInt
IntVal(s) ==
  IF Head(s) = "-" THEN 0 - DigitsVal(Tail(s))
  ELSE IF Head(s) = "+" THEN DigitsVal(Tail(s))
  ELSE DigitsVal(s)

\* s.replace('@', '')
StripAt(s) == SelectSeq(s, LAMBDA a : a # AT)

\* 'INDI' in s  /  'FAM' in s  /  'DATE' in s  (substring tests)
Contains(s, marker) == \E i \in 1..Len(s) : s[i] = marker

(***************************************************************************)
(* Python dict helpers: a dict is a sequence of [k |-> key, v |-> value]   *)
(***************************************************************************)
DictHas(d, k) == \E i \in 1..Len(d) : d[i].k = k

DictGet(d, k) == d[CHOOSE i \in 1..Len(d) : d[i].k = k].v

DictSet(d, k, v) ==
  IF DictHas(d, k)
  THEN [i \in 1..Len(d) |-> IF d[i].k = k THEN [k |-> k, v |-> v] ELSE d[i]]
  ELSE Append(d, [k |-> k, v |-> v])

\* values held by a record: a str, a nested dict (sub-tag -> str) or a list
StrV(s) == [t |-> "str", s |-> s, d |-> <<>>, l |-> <<>>]
DictV(d) == [t |-> "dict", s |-> <<>>, d |-> d, l |-> <<>>]
ListV(l) == [t |-> "list", s |-> <<>>, d |-> <<>>, l |-> l]

K_id == <<"id">>
K_type == <<"type">>
INDI == <<"INDI">>
FAM == <<"FAM">>
HUSB == <<"HUSB">>
WIFE == <<"WIFE">>
CHIL == <<"CHIL">>
NAME == <<"NAME">>
BIRT == <<"BIRT">>
DEAT == <<"DEAT">>
DATE == <<"DATE">>

(***************************************************************************)
(* GedcomParser: the object's fields as one record P, exc = the exception  *)
(* a call ended with ("" when it returned normally)                        *)
(***************************************************************************)
NoExc == ""

\* __init__
NewParser ==
  [individuals |-> <<>>, families |-> <<>>, heap |-> <<>>,
   current_entity |-> 0, current_tag |-> <<>>, exc |-> NoExc]

Raise(P, e) == [P EXCEPT !.exc = e]

\* truth value of a str-or-None held as <<>> (None) or <<s>>
Truthy(opt) == opt # <<>> /\ opt[1] # EmptyStr

\* variant: a declaration of an id already stored reopens the stored record
OpenIndividual_keep(P, parts) ==
  LET id == StripAt(parts[2])
      obj == <<[k |-> K_id, v |-> StrV(id)], [k |-> K_type, v |-> StrV(INDI)]>>
      addr == Len(P.heap) + 1
  IN IF DictHas(P.individuals, id)
     THEN [P EXCEPT !.current_entity = DictGet(P.individuals, id)]
     ELSE [P EXCEPT !.heap = Append(@, obj),
                    !.current_entity = addr,
                    !.individuals = DictSet(@, id, addr)]

\* variant: the mapping stores a copy, the open record is another object
OpenIndividual_detached(P, parts) ==
  LET id == StripAt(parts[2])
      obj == <<[k |-> K_id, v |-> StrV(id)], [k |-> K_type, v |-> StrV(INDI)]>>
      addr == Len(P.heap) + 1
  IN [P EXCEPT !.heap = Append(Append(@, obj), obj),
               !.current_entity = addr + 1,
               !.individuals = DictSet(@, id, addr)]

\* self.current_entity = {'id': id, 'type': ...}; self.individuals[id] = ...
OpenIndividual(P, parts) ==
  LET id == StripAt(parts[2])
      obj == <<[k |-> K_id, v |-> StrV(id)], [k |-> K_type, v |-> StrV(INDI)]>>
      addr == Len(P.heap) + 1
  IN [P EXCEPT !.heap = Append(@, obj),
               !.current_entity = addr,
               !.individuals = DictSet(@, id, addr)]

OpenFamily(P, parts) ==
  LET id == StripAt(parts[2])
      obj == <<[k |-> K_id, v |-> StrV(id)], [k |-> K_type, v |-> StrV(FAM)]>>
      addr == Len(P.heap) + 1
  IN [P EXCEPT !.heap = Append(@, obj),
               !.current_entity = addr,
               !.families = DictSet(@, id, addr)]

\* variant: an unrecognized level-0 line leaves the open record open
LevelZero_keepOpen(P, line, parts) ==
  IF Contains(line, "INDI") THEN OpenIndividual(P, parts)
  ELSE IF Contains(line, "FAM") THEN OpenFamily(P, parts)
  ELSE P

\* variant: the record kind is the third field compared exactly
LevelZero_exactTag(P, line, parts) ==
  IF Len(parts) > 2 /\ parts[3] = INDI THEN OpenIndividual(P, parts)
  ELSE IF Len(parts) > 2 /\ parts[3] = FAM THEN OpenFamily(P, parts)
  ELSE [P EXCEPT !.current_entity = 0]

\* if level == 0: ...
LevelZero(P, line, parts) ==
  IF Contains(line, "INDI") THEN OpenIndividual(P, parts)
  ELSE IF Contains(line, "FAM") THEN OpenFamily(P, parts)
  ELSE [P EXCEPT !.current_entity = 0]

\* self.current_entity and self.current_entity['type'] == T
CurrentIs(P, T) ==
  /\ P.current_entity # 0
  /\ LET ty == DictGet(P.heap[P.current_entity], K_type)
     IN ty.t = "str" /\ ty.s = T

\* self.current_entity[self.current_tag][parts[1]] = parts[2] if ... else ''
SetSubTag(P, parts) ==
  LET a == P.current_entity
      tag == P.current_tag[1]
      e0 == P.heap[a]
      e1 == IF DictHas(e0, tag) THEN e0 ELSE DictSet(e0, tag, DictV(<<>>))
      cur == DictGet(e1, tag)
      val == IF Len(parts) > 2 THEN parts[3] ELSE EmptyStr
  IN IF cur.t = "dict"
     THEN [P EXCEPT !.heap[a] = DictSet(e1, tag, DictV(DictSet(cur.d, parts[2], val)))]
     ELSE Raise([P EXCEPT !.heap[a] = e1], "TypeError")

\* variant: a level-1 value does not replace a nested mapping
IndividualDetail_keepNested(P, level, parts) ==
  IF level = 1
  THEN LET Q == [P EXCEPT !.current_tag = <<parts[2]>>]
           e == P.heap[P.current_entity]
       IN IF Len(parts) > 2
             /\ ~(DictHas(e, parts[2]) /\ DictGet(e, parts[2]).t = "dict")
          THEN [Q EXCEPT !.heap[P.current_entity] = DictSet(@, parts[2], StrV(parts[3]))]
          ELSE Q
  ELSE IF level = 2 /\ Truthy(P.current_tag) THEN SetSubTag(P, parts)
  ELSE P

\* variant: every line deeper than level 1 is taken as a sub-tag line
IndividualDetail_anyDeeper(P, level, parts) ==
  IF level = 1
  THEN LET Q == [P EXCEPT !.current_tag = <<parts[2]>>]
       IN IF Len(parts) > 2
          THEN [Q EXCEPT !.heap[P.current_entity] = DictSet(@, parts[2], StrV(parts[3]))]
          ELSE Q
  ELSE IF level >= 2 /\ Truthy(P.current_tag) THEN SetSubTag(P, parts)
  ELSE P

\* elif self.current_entity and self.current_entity['type'] == 'INDI': ...
IndividualDetail(P, level, parts) ==
  IF level = 1
  THEN LET Q == [P EXCEPT !.current_tag = <<parts[2]>>]
       IN IF Len(parts) > 2
          THEN [Q EXCEPT !.heap[P.current_entity] = DictSet(@, parts[2], StrV(parts[3]))]
          ELSE Q
  ELSE IF level = 2 /\ Truthy(P.current_tag) THEN SetSubTag(P, parts)
  ELSE P

\* variant: the child is inserted at the front of the list
AppendChild_prepend(P, value) ==
  LET a == P.current_entity
      e0 == P.heap[a]
      e1 == IF DictHas(e0, CHIL) THEN e0 ELSE DictSet(e0, CHIL, ListV(<<>>))
      cur == DictGet(e1, CHIL)
  IN IF cur.t = "list"
     THEN [P EXCEPT !.heap[a] = DictSet(e1, CHIL, ListV(<<value>> \o cur.l))]
     ELSE Raise([P EXCEPT !.heap[a] = e1], "AttributeError")

\* self.current_entity['CHIL'].append(value), creating the list on first use
AppendChild(P, value) ==
  LET a == P.current_entity
      e0 == P.heap[a]
      e1 == IF DictHas(e0, CHIL) THEN e0 ELSE DictSet(e0, CHIL, ListV(<<>>))
      cur == DictGet(e1, CHIL)
  IN IF cur.t = "list"
     THEN [P EXCEPT !.heap[a] = DictSet(e1, CHIL, ListV(Append(cur.l, value)))]
     ELSE Raise([P EXCEPT !.heap[a] = e1], "AttributeError")

\* elif self.current_entity and self.current_entity['type'] == 'FAM': ...
FamilyRelationship(P, level, parts) ==
  IF level = 1 /\ Len(parts) > 2
  THEN LET tag == parts[2]
           value == StripAt(parts[3])
       IN IF tag \in {HUSB, WIFE}
          THEN [P EXCEPT !.heap[P.current_entity] = DictSet(@, tag, StrV(value))]
          ELSE IF tag = CHIL THEN AppendChild(P, value)
          ELSE P
  ELSE P

\* variant: a line whose first field is not an integer is skipped
parse_line_skipBadLevel(P, line) ==
  LET parts == Split2(line) IN
  IF ~IsInt(parts[1]) THEN P
  ELSE LET level == IntVal(parts[1]) IN
       IF Len(parts) < 2 THEN P
       ELSE IF level = 0 THEN LevelZero(P, line, parts)
       ELSE IF CurrentIs(P, INDI) THEN IndividualDetail(P, level, parts)
       ELSE IF CurrentIs(P, FAM) THEN FamilyRelationship(P, level, parts)
       ELSE P

\* variant: a negative level is rejected like a non-integer one
parse_line_rejectNegative(P, line) ==
  LET parts == Split2(line) IN
  IF ~IsInt(parts[1]) \/ IntVal(parts[1]) < 0 THEN Raise(P, "ValueError")
  ELSE LET level == IntVal(parts[1]) IN
       IF Len(parts) < 2 THEN P
       ELSE IF level = 0 THEN LevelZero(P, line, parts)
       ELSE IF CurrentIs(P, INDI) THEN IndividualDetail(P, level, parts)
       ELSE IF CurrentIs(P, FAM) THEN FamilyRelationship(P, level, parts)
       ELSE P

\* the integer conversion of the first field precedes the field-count test
\* (line 92, level = int(parts[0]); the index is garbled in the stored text)
parse_line(P, line) ==
  LET parts == Split2(line) IN
  IF ~IsInt(parts[1]) THEN Raise(P, "ValueError")
  ELSE LET level == IntVal(parts[1]) IN
       IF Len(parts) < 2 THEN P
       ELSE IF level = 0 THEN LevelZero(P, line, parts)
       ELSE IF CurrentIs(P, INDI) THEN IndividualDetail(P, level, parts)
       ELSE IF CurrentIs(P, FAM) THEN FamilyRelationship(P, level, parts)
       ELSE P

(***************************************************************************)
(* format_knowledge and _extract_date                                      *)
(***************************************************************************)
\* repr() of a str inside a container: quoted
Quoted(s) == <<"'">> \o s \o <<"'">>

RECURSIVE ReprItems(_)
ReprItems(d) ==
  IF d = <<>> THEN <<>>
  ELSE Quoted(d[1].k) \o <<": ">> \o Quoted(d[1].v)
       \o (IF Len(d) > 1 THEN <<", ">> ELSE <<>>) \o ReprItems(Tail(d))

RECURSIVE ReprList(_)
ReprList(l) ==
  IF l = <<>> THEN <<>>
  ELSE Quoted(l[1]) \o (IF Len(l) > 1 THEN <<", ">> ELSE <<>>) \o ReprList(Tail(l))

\* what an f-string puts in place of {value}
FormatValue(v) ==
  IF v.t = "str" THEN v.s
  ELSE IF v.t = "dict" THEN <<"{">> \o ReprItems(v.d) \o <<"}">>
  ELSE <<"[">> \o ReprList(v.l) \o <<"]">>

\* _extract_date: [exc, date] with date <<>> for None and <<s>> for a str
ExtractDate(v) ==
  IF v.t = "dict"
  THEN IF DictHas(v.d, DATE)
       THEN [exc |-> NoExc, date |-> <<DictGet(v.d, DATE)>>]
       ELSE [exc |-> NoExc, date |-> <<>>]
  ELSE IF v.t = "str"
  THEN IF Contains(v.s, "DATE")
       THEN [exc |-> "TypeError", date |-> <<>>]
       ELSE [exc |-> NoExc, date |-> <<>>]
  ELSE IF \E i \in 1..Len(v.l) : v.l[i] = DATE
       THEN [exc |-> "TypeError", date |-> <<>>]
       ELSE [exc |-> NoExc, date |-> <<>>]

\* person.get(key, {})
GetOrEmptyDict(person, key) ==
  IF DictHas(person, key) THEN DictGet(person, key) ELSE DictV(<<>>)

\* variant: the default name leaves the id out
PersonEntity_plainUnknown(person_id, person) ==
  LET name == IF DictHas(person, NAME) THEN FormatValue(DictGet(person, NAME))
              ELSE <<"Unknown">>
      birth == ExtractDate(GetOrEmptyDict(person, BIRT))
      death == ExtractDate(GetOrEmptyDict(person, DEAT))
      observations ==
        << <<"Name: ">> \o name >>
        \o (IF Truthy(birth.date) THEN << <<"Birth date: ">> \o birth.date[1] >> ELSE <<>>)
        \o (IF Truthy(death.date) THEN << <<"Death date: ">> \o death.date[1] >> ELSE <<>>)
  IN [exc |-> IF birth.exc # NoExc THEN birth.exc ELSE death.exc,
      entity |-> [name |-> <<"Person_">> \o person_id,
                  entityType |-> "Person",
                  observations |-> observations]]

\* variant: a date line is kept whenever the date is not None
PersonEntity_keepEmpty(person_id, person) ==
  LET name == IF DictHas(person, NAME) THEN FormatValue(DictGet(person, NAME))
              ELSE <<"Unknown_">> \o person_id
      birth == ExtractDate(GetOrEmptyDict(person, BIRT))
      death == ExtractDate(GetOrEmptyDict(person, DEAT))
      observations ==
        << <<"Name: ">> \o name >>
        \o (IF birth.date # <<>> THEN << <<"Birth date: ">> \o birth.date[1] >> ELSE <<>>)
        \o (IF death.date # <<>> THEN << <<"Death date: ">> \o death.date[1] >> ELSE <<>>)
  IN [exc |-> IF birth.exc # NoExc THEN birth.exc ELSE death.exc,
      entity |-> [name |-> <<"Person_">> \o person_id,
                  entityType |-> "Person",
                  observations |-> observations]]

\* the body of "for person_id, person in self.individuals.items()"
PersonEntity(person_id, person) ==
  LET name == IF DictHas(person, NAME) THEN FormatValue(DictGet(person, NAME))
              ELSE <<"Unknown_">> \o person_id
      birth == ExtractDate(GetOrEmptyDict(person, BIRT))
      death == ExtractDate(GetOrEmptyDict(person, DEAT))
      observations ==
        << <<"Name: ">> \o name >>
        \o (IF Truthy(birth.date) THEN << <<"Birth date: ">> \o birth.date[1] >> ELSE <<>>)
        \o (IF Truthy(death.date) THEN << <<"Death date: ">> \o death.date[1] >> ELSE <<>>)
  IN [exc |-> IF birth.exc # NoExc THEN birth.exc ELSE death.exc,
      entity |-> [name |-> <<"Person_">> \o person_id,
                  entityType |-> "Person",
                  observations |-> observations]]

Relation(from, to, relationType) ==
  [from |-> <<"Person_">> \o from, to |-> <<"Person_">> \o to,
   relationType |-> relationType]

\* variant: the wife's relation is emitted before the husband's
ChildRelations_wifeFirst(family, child) ==
  (IF DictHas(family, WIFE)
   THEN <<Relation(DictGet(family, WIFE).s, child, "parent_of")>> ELSE <<>>)
  \o (IF DictHas(family, HUSB)
      THEN <<Relation(DictGet(family, HUSB).s, child, "parent_of")>> ELSE <<>>)

\* the body of "for child in family.get('CHIL', [])"
ChildRelations(family, child) ==
  (IF DictHas(family, HUSB)
   THEN <<Relation(DictGet(family, HUSB).s, child, "parent_of")>> ELSE <<>>)
  \o (IF DictHas(family, WIFE)
      THEN <<Relation(DictGet(family, WIFE).s, child, "parent_of")>> ELSE <<>>)

RECURSIVE ChildrenRelations(_, _)
ChildrenRelations(family, children) ==
  IF children = <<>> THEN <<>>
  ELSE ChildRelations(family, children[1]) \o ChildrenRelations(family, Tail(children))

\* variant: married_to directed wife -> husband
FamilyRelations_reversed(family) ==
  (IF DictHas(family, HUSB) /\ DictHas(family, WIFE)
   THEN <<Relation(DictGet(family, WIFE).s, DictGet(family, HUSB).s, "married_to")>>
   ELSE <<>>)
  \o ChildrenRelations(family,
        IF DictHas(family, CHIL) THEN DictGet(family, CHIL).l ELSE <<>>)

\* the body of "for family in self.families.values()"
FamilyRelations(family) ==
  (IF DictHas(family, HUSB) /\ DictHas(family, WIFE)
   THEN <<Relation(DictGet(family, HUSB).s, DictGet(family, WIFE).s, "married_to")>>
   ELSE <<>>)
  \o ChildrenRelations(family,
        IF DictHas(family, CHIL) THEN DictGet(family, CHIL).l ELSE <<>>)

RECURSIVE Flatten(_)
Flatten(ss) == IF ss = <<>> THEN <<>> ELSE ss[1] \o Flatten(Tail(ss))

format_knowledge(P) ==
  LET persons == [i \in 1..Len(P.individuals) |->
                    PersonEntity(P.individuals[i].k, P.heap[P.individuals[i].v])]
      bad == {i \in 1..Len(persons) : persons[i].exc # NoExc}
      relations == Flatten([i \in 1..Len(P.families) |->
                              FamilyRelations(P.heap[P.families[i].v])])
  IN IF bad # {}
     THEN [exc |-> persons[CHOOSE i \in bad : \A j \in bad : i <= j].exc,
           entities |-> <<>>, relations |-> <<>>]
     ELSE [exc |-> NoExc,
           entities |-> [i \in 1..Len(persons) |-> persons[i].entity],
           relations |-> relations]

(***************************************************************************)
(* Input lines (already without their line terminator)                     *)
(***************************************************************************)
L_I1 == <<"0", SP, AT, "I1", AT, SP, "INDI">>
L_I2 == <<"0", SP, AT, "I2", AT, SP, "INDI">>
L_I3 == <<"0", SP, AT, "I3", AT, SP, "INDI">>
L_F1 == <<"0", SP, AT, "F1", AT, SP, "FAM">>
L_F2 == <<"0", SP, AT, "F2", AT, SP, "FAM">>
L_HEAD == <<"0", SP, "HEAD">>
L_NAME == <<"1", SP, "NAME", SP, "John", SP, "/Doe/">>
L_NAME_Jane == <<"1", SP, "NAME", SP, "Jane", SP, "/Doe/">>
L_NAME_Jimmy == <<"1", SP, "NAME", SP, "Jimmy", SP, "/Doe/">>
L_NAME_novalue == <<"1", SP, "NAME">>
L_BIRT == <<"1", SP, "BIRT">>
L_BIRT_trailing == <<"1", SP, "BIRT", SP>>
L_DATE == <<"2", SP, "DATE", SP, "1", SP, "JAN", SP, "1980">>
L_HUSB == <<"1", SP, "HUSB", SP, AT, "I1", AT>>
L_WIFE == <<"1", SP, "WIFE", SP, AT, "I2", AT>>
L_CHIL == <<"1", SP, "CHIL", SP, AT, "I3", AT>>
L_CHIL4 == <<"1", SP, "CHIL", SP, AT, "I4", AT>>
L_abc == <<"abc", SP, AT, "I1", AT, SP, "INDI">>
L_zero == <<"0">>
L_blank == <<>>
L_neg == <<"-", "1", SP, "NAME", SP, "x">>
L_deep == <<"3", SP, "X", SP, "y">>
L_DEAT == <<"1", SP, "DEAT">>
L_DATE_novalue == <<"2", SP, "DATE">>
L_type == <<"1", SP, "type", SP, "FAM">>
L_id == <<"1", SP, "id", SP, "X">>
L_INDI1_FAM == <<"0", SP, AT, "INDI", "1", AT, SP, "FAM">>
L_N1_FAM == <<"0", SP, AT, "N1", AT, SP, "NOTE", SP, "FAM">>
L_HUSB2 == <<"1", SP, "HUSB", SP, AT, "I2", AT>>

\* the end-to-end scenario of the specification
ScenarioFile ==
  <<L_I1, L_NAME, L_BIRT, L_DATE, L_I2, L_NAME_Jane, L_I3, L_NAME_Jimmy,
    L_F1, L_HUSB, L_WIFE, L_CHIL>>

Lines ==
  {L_I1, L_I2, L_F1, L_HEAD, L_NAME, L_BIRT_trailing, L_DATE, L_HUSB, L_CHIL,
   L_abc, L_zero, L_blank, L_neg, L_deep}

FamLines == {L_F1, L_F2, L_HUSB, L_WIFE, L_CHIL, L_CHIL4}

IndiLines == {L_I1, L_I2, L_NAME, L_NAME_novalue, L_BIRT, L_DATE}

ObsLines == {L_I1, L_NAME, L_BIRT, L_DEAT, L_DATE, L_DATE_novalue}

TagLines == {L_I1, L_F1, L_type, L_id, L_HUSB, L_DATE}

KindLines == {L_I1, L_F1, L_HEAD, L_INDI1_FAM, L_N1_FAM, L_NAME}

ChildLines == {L_F1, L_HUSB, L_HUSB2, L_WIFE, L_CHIL, L_CHIL4, L_NAME}

ReuseLines == {L_I1, L_NAME, L_DATE, L_F1, L_HUSB}

\* the lines a file may hold next: any line of V while the file is shorter
\* than max, or the next line of the scenario file
NextLines(V, max) ==
  {l \in V : Len(read) < max}
  \cup {ScenarioFile[i] : i \in {j \in 1..Len(ScenarioFile) :
                                   read = SubSeq(ScenarioFile, 1, j - 1)}}

(***************************************************************************)
(* process_gedcom_file / parse_file as a state machine                     *)
(***************************************************************************)
Self ==
  [individuals |-> individuals, families |-> families, heap |-> heap,
   current_entity |-> current_entity, current_tag |-> current_tag,
   exc |-> NoExc]

SetSelf(P) ==
  /\ individuals' = P.individuals
  /\ families' = P.families
  /\ heap' = P.heap
  /\ current_entity' = P.current_entity
  /\ current_tag' = P.current_tag

parserVars == <<individuals, families, heap, current_entity, current_tag>>

\* parser = GedcomParser(), parse_file not yet entered
Init ==
  /\ individuals = NewParser.individuals
  /\ families = NewParser.families
  /\ heap = NewParser.heap
  /\ current_entity = NewParser.current_entity
  /\ current_tag = NewParser.current_tag
  /\ pc = "start"
  /\ stream = "unopened"
  /\ read = <<>>
  /\ raised = <<>>
  /\ result = <<>>
  /\ formatRuns = 0
  /\ earlier = <<>>

\* with open(file_path, ...) as file
Open ==
  /\ pc = "start"
  /\ pc' = "reading"
  /\ stream' = "open"
  /\ UNCHANGED <<parserVars, read, raised, result, formatRuns, earlier>>

\* open() raises: the file is missing or unreadable
OpenFails ==
  /\ pc = "start"
  /\ pc' = "failed"
  /\ raised' = <<[exc |-> "OSError", in |-> "open"]>>
  /\ UNCHANGED <<parserVars, stream, read, result, formatRuns, earlier>>

\* variant: no with block, an exception leaves the file open
ReadLine_leak(line) ==
  /\ pc = "reading"
  /\ read' = Append(read, line)
  /\ LET P == parse_line(Self, Strip(line)) IN
       /\ SetSelf(P)
       /\ IF P.exc # NoExc
          THEN /\ pc' = "failed"
               /\ raised' = <<[exc |-> P.exc, in |-> "parse_line"]>>
               /\ UNCHANGED stream
          ELSE UNCHANGED <<pc, stream, raised>>
  /\ UNCHANGED <<result, formatRuns, earlier>>

\* one iteration of "for line in file: self.parse_line(line.strip())";
\* an exception leaves the with block, which closes the file
ReadLine(line) ==
  /\ pc = "reading"
  /\ read' = Append(read, line)
  /\ LET P == parse_line(Self, Strip(line)) IN
       /\ SetSelf(P)
       /\ IF P.exc # NoExc
          THEN /\ pc' = "failed"
               /\ stream' = "closed"
               /\ raised' = <<[exc |-> P.exc, in |-> "parse_line"]>>
          ELSE UNCHANGED <<pc, stream, raised>>
  /\ UNCHANGED <<result, formatRuns, earlier>>

\* the file is exhausted: the loop ends and the with block closes the file
EndOfFile ==
  /\ pc = "reading"
  /\ pc' = "closed"
  /\ stream' = "closed"
  /\ UNCHANGED <<parserVars, read, raised, result, formatRuns, earlier>>

\* variant: the formatter empties the record store once the graph is built
Format_clearing ==
  /\ pc = "closed"
  /\ formatRuns' = formatRuns + 1
  /\ LET r == format_knowledge(Self) IN
       IF r.exc # NoExc
       THEN /\ pc' = "failed"
            /\ raised' = <<[exc |-> r.exc, in |-> "format_knowledge"]>>
            /\ UNCHANGED result
       ELSE /\ pc' = "done"
            /\ result' = <<[entities |-> r.entities, relations |-> r.relations]>>
            /\ UNCHANGED raised
  /\ individuals' = <<>>
  /\ families' = <<>>
  /\ UNCHANGED <<heap, current_entity, current_tag, stream, read, earlier>>

\* return self.format_knowledge()
Format ==
  /\ pc = "closed"
  /\ formatRuns' = formatRuns + 1
  /\ LET r == format_knowledge(Self) IN
       IF r.exc # NoExc
       THEN /\ pc' = "failed"
            /\ raised' = <<[exc |-> r.exc, in |-> "format_knowledge"]>>
            /\ UNCHANGED result
       ELSE /\ pc' = "done"
            /\ result' = <<[entities |-> r.entities, relations |-> r.relations]>>
            /\ UNCHANGED raised
  /\ UNCHANGED <<parserVars, stream, read, earlier>>

\* parse_file is called again on the same instance once a call has
\* returned: nothing in parse_file re-initializes the parser's fields.
\* earlier keeps the lines of the files of the calls that returned.
ParseAgain ==
  /\ pc = "done"
  /\ Len(earlier) + 1 < MaxCalls
  /\ earlier' = Append(earlier, read)
  /\ read' = <<>>
  /\ result' = <<>>
  /\ formatRuns' = 0
  /\ stream' = "unopened"
  /\ pc' = "start"
  /\ UNCHANGED <<parserVars, raised>>

Next ==
  \/ Open
  \/ OpenFails
  \/ \E line \in NextLines(Lines, MaxLines) : ReadLine(line)
  \/ EndOfFile
  \/ Format

Spec == Init /\ [][Next]_vars

NextFam ==
  \/ Open
  \/ OpenFails
  \/ \E line \in NextLines(FamLines, MaxFamLines) : ReadLine(line)
  \/ EndOfFile
  \/ Format

SpecFam == Init /\ [][NextFam]_vars

NextIndi ==
  \/ Open
  \/ OpenFails
  \/ \E line \in NextLines(IndiLines, MaxIndiLines) : ReadLine(line)
  \/ EndOfFile
  \/ Format

SpecIndi == Init /\ [][NextIndi]_vars

NextObs ==
  \/ Open
  \/ OpenFails
  \/ \E line \in NextLines(ObsLines, MaxIndiLines) : ReadLine(line)
  \/ EndOfFile
  \/ Format

SpecObs == Init /\ [][NextObs]_vars

NextTag ==
  \/ Open
  \/ OpenFails
  \/ \E line \in NextLines(TagLines, MaxLines) : ReadLine(line)
  \/ EndOfFile
  \/ Format

SpecTag == Init /\ [][NextTag]_vars

NextKind ==
  \/ Open
  \/ OpenFails
  \/ \E line \in NextLines(KindLines, MaxLines) : ReadLine(line)
  \/ EndOfFile
  \/ Format

SpecKind == Init /\ [][NextKind]_vars

NextChild ==
  \/ Open
  \/ OpenFails
  \/ \E line \in NextLines(ChildLines, MaxLines) : ReadLine(line)
  \/ EndOfFile
  \/ Format

SpecChild == Init /\ [][NextChild]_vars

NextReuse ==
  \/ Open
  \/ OpenFails
  \/ \E line \in NextLines(ReuseLines, MaxReuseLines) : ReadLine(line)
  \/ EndOfFile
  \/ Format
  \/ ParseAgain

SpecReuse == Init /\ [][NextReuse]_vars

(***************************************************************************)
(* Vocabulary of the properties                                            *)
(***************************************************************************)
Last(sq) == sq[Len(sq)]

\* the fields parse_line sees for a raw line of the file
Fields(line) == Split2(Strip(line))

IntegerLevel(line) == IsInt(Fields(line)[1])

NegativeLevel(line) == IntegerLevel(line) /\ IntVal(Fields(line)[1]) < 0

ParseAborted == pc = "failed" /\ raised[1].in = "parse_line"

\* a step that consumes one line of the file
Consumes == pc = "reading" /\ read' # read

\* the parser after the lines ls, started from P (stops at the first raise)
RECURSIVE RunFrom(_, _)
RunFrom(P, ls) ==
  IF ls = <<>> \/ P.exc # NoExc THEN P
  ELSE RunFrom(parse_line(P, Strip(ls[1])), Tail(ls))

(***************************************************************************)
(* C1: when the first field of every line is an integer, parsing all the   *)
(* lines and running the formatter raises no failure (stated as: a failure *)
(* of parse_line or format_knowledge implies a line with a non-integer     *)
(* first field).  Violated by the code.                                    *)
(***************************************************************************)
C1_OnlyNonIntegerLevelFails ==
  (pc = "failed" /\ raised[1].in # "open")
    => \E i \in 1..Len(read) : ~IntegerLevel(read[i])

(***************************************************************************)
(* C2: the twelve-line scenario yields exactly the three entities and the  *)
(* three relations of the specification, in that order.                    *)
(***************************************************************************)
ScenarioEntities ==
  << [name |-> <<"Person_", "I1">>, entityType |-> "Person",
      observations |-> << <<"Name: ", "John", SP, "/Doe/">>,
                          <<"Birth date: ", "1", SP, "JAN", SP, "1980">> >>],
     [name |-> <<"Person_", "I2">>, entityType |-> "Person",
      observations |-> << <<"Name: ", "Jane", SP, "/Doe/">> >>],
     [name |-> <<"Person_", "I3">>, entityType |-> "Person",
      observations |-> << <<"Name: ", "Jimmy", SP, "/Doe/">> >>] >>

ScenarioRelations ==
  << [from |-> <<"Person_", "I1">>, to |-> <<"Person_", "I2">>,
      relationType |-> "married_to"],
     [from |-> <<"Person_", "I1">>, to |-> <<"Person_", "I3">>,
      relationType |-> "parent_of"],
     [from |-> <<"Person_", "I2">>, to |-> <<"Person_", "I3">>,
      relationType |-> "parent_of"] >>

C2_Scenario ==
  (read = ScenarioFile /\ pc \notin {"reading", "closed"})
    => /\ pc = "done"
       /\ result = <<[entities |-> ScenarioEntities,
                      relations |-> ScenarioRelations]>>

C2_Witness == read = ScenarioFile /\ pc = "done"

(***************************************************************************)
(* C6: a line whose first field is not an integer fails the whole parse,   *)
(* wherever it occurs: the call ends in a failure raised by parse_line on  *)
(* that line, the formatter has not run and no value is returned.          *)
(***************************************************************************)
C6_NonIntegerLevelFailsParse ==
  (\E i \in 1..Len(read) : ~IntegerLevel(read[i]))
    => /\ pc = "failed"
       /\ raised = <<[exc |-> "ValueError", in |-> "parse_line"]>>
       /\ ~IntegerLevel(Last(read))
       /\ result = <<>>
       /\ formatRuns = 0

C6_Witness ==
  /\ pc = "failed"
  /\ Len(read) >= 3
  /\ Last(read) = L_abc
  /\ individuals # <<>>
  /\ result = <<>>

(***************************************************************************)
(* C7: a line with fewer than two fields is skipped: reading it raises no  *)
(* failure and leaves the record store, the open record and the current    *)
(* attribute unchanged.  Violated by the code on the empty line.           *)
(***************************************************************************)
C7_ShortLineSkipped ==
  [][(Consumes /\ Len(Fields(Last(read'))) < 2)
       => (pc' = "reading" /\ UNCHANGED parserVars)]_vars

(***************************************************************************)
(* C8 as stated: a line whose first field is a negative integer aborts the *)
(* parse and no graph is returned.  Violated by the code.                  *)
(***************************************************************************)
C8_NegativeLevelAborts ==
  (\E i \in 1..Len(read) : NegativeLevel(read[i]))
    => (pc # "done" /\ result = <<>>)

(***************************************************************************)
(* C8 amended: a line whose first field is a negative integer raises no    *)
(* failure; it leaves the record store, the open record, the current       *)
(* attribute and the stream unchanged and the parse goes on.               *)
(***************************************************************************)
C8_NegativeLevelIgnored ==
  [][(Consumes /\ NegativeLevel(Last(read')))
       => (pc' = "reading" /\ UNCHANGED <<parserVars, stream, raised>>)]_vars

C8_Witness ==
  /\ pc = "done"
  /\ \E i \in 1..Len(read) : NegativeLevel(read[i])
  /\ result[1].entities # <<>>

(***************************************************************************)
(* C9: the stream is closed on every exit path of parse_file; the          *)
(* formatter runs at most once, only when every line has been consumed and *)
(* the stream is closed, and never on an aborted parse.                    *)
(***************************************************************************)
C9_StreamAndFormatter ==
  /\ [](/\ (pc \in {"closed", "done", "failed"} => stream # "open")
        /\ (ParseAborted => (stream = "closed" /\ formatRuns = 0))
        /\ formatRuns <= 1
        /\ (formatRuns = 1 => (stream = "closed" /\ pc \in {"done", "failed"})))
  /\ [][(formatRuns' # formatRuns)
          => (pc = "closed" /\ stream = "closed" /\ stream' = "closed")]_vars
  /\ [][(pc \in {"closed", "done", "failed"}) => read' = read]_vars

C9_Witness ==
  /\ ParseAborted
  /\ Len(read) >= 2
  /\ stream = "closed"
  /\ formatRuns = 0

(***************************************************************************)
(* Declarations of individuals, read off the lines consumed so far         *)
(***************************************************************************)
Max(S) == CHOOSE x \in S : \A y \in S : y <= x
Min(S) == CHOOSE x \in S : \A y \in S : x <= y

DeclaresIndividual(line) ==
  /\ IntegerLevel(line)
  /\ Len(Fields(line)) >= 2
  /\ IntVal(Fields(line)[1]) = 0
  /\ Contains(Strip(line), "INDI")

DeclaredId(line) == StripAt(Fields(line)[2])

Declarations(id) ==
  {i \in 1..Len(read) : DeclaresIndividual(read[i]) /\ DeclaredId(read[i]) = id}

DeclaredIds ==
  {DeclaredId(read[i]) : i \in {j \in 1..Len(read) : DeclaresIndividual(read[j])}}

\* position of id among the distinct ids, in order of first declaration
CreationRank(id) ==
  1 + Cardinality({DeclaredId(read[j]) :
                     j \in {m \in 1..(Min(Declarations(id)) - 1) :
                              DeclaresIndividual(read[m])}})

\* the record of id as rebuilt from the lines from its last declaration on,
\* by a parser that knows nothing of the earlier lines but the tag context
RebuiltRecord(id) ==
  LET k == Max(Declarations(id))
      before == RunFrom(NewParser, SubSeq(read, 1, k - 1))
      P == RunFrom([NewParser EXCEPT !.current_tag = before.current_tag],
                   SubSeq(read, k, Len(read)))
  IN P.heap[DictGet(P.individuals, id)]

(***************************************************************************)
(* C3: re-declaring an individual id replaces the prior record in full:    *)
(* right after the declaration the stored record holds its id and type     *)
(* only; the entity list has exactly one entity per declared id, at the    *)
(* position of the id's first creation, and its observations are those of  *)
(* the record rebuilt from the lines from the last declaration on.         *)
(***************************************************************************)
C3_RedeclarationReplaces ==
  /\ (pc = "reading" /\ read # <<>> /\ DeclaresIndividual(Last(read)))
       => LET id == DeclaredId(Last(read))
          IN heap[DictGet(individuals, id)]
               = <<[k |-> K_id, v |-> StrV(id)], [k |-> K_type, v |-> StrV(INDI)]>>
  /\ pc = "done"
       => LET E == result[1].entities IN
          /\ Len(E) = Cardinality(DeclaredIds)
          /\ \A id \in DeclaredIds :
               /\ {i \in 1..Len(E) : E[i].name = <<"Person_">> \o id}
                    = {CreationRank(id)}
               /\ E[CreationRank(id)].observations
                    = PersonEntity(id, RebuiltRecord(id)).entity.observations

C3_Witness ==
  /\ pc = "done"
  /\ Len(result[1].entities) = 2
  /\ \E id \in DeclaredIds :
       /\ Cardinality(Declarations(id)) >= 2
       /\ CreationRank(id) = 1
       /\ Max(Declarations(id)) = Len(read)
       /\ \E k \in Min(Declarations(id))..Max(Declarations(id)) : read[k] = L_NAME
       /\ result[1].entities[1].observations = << <<"Name: ", "Unknown_">> \o id >>

(***************************************************************************)
(* Families of the record store                                            *)
(***************************************************************************)
Fams == [i \in 1..Len(families) |-> heap[families[i].v]]

\* the parents set on a family, husband first
ParentsOf(f) ==
  (IF DictHas(f, HUSB) THEN <<DictGet(f, HUSB).s>> ELSE <<>>)
  \o (IF DictHas(f, WIFE) THEN <<DictGet(f, WIFE).s>> ELSE <<>>)

ChildrenOf(f) == IF DictHas(f, CHIL) THEN DictGet(f, CHIL).l ELSE <<>>

MarriedCount(f) == IF Len(ParentsOf(f)) = 2 THEN 1 ELSE 0

\* number of relations of the families before the i-th
RECURSIVE Offset(_)
Offset(i) ==
  IF i <= 1 THEN 0
  ELSE Offset(i - 1) + MarriedCount(Fams[i - 1])
       + Len(ChildrenOf(Fams[i - 1])) * Len(ParentsOf(Fams[i - 1]))

(***************************************************************************)
(* C4: each family contributes children x parents-set parent_of relations, *)
(* grouped per child in child-declaration order, the husband's before the  *)
(* wife's; a family with children and no parent contributes none.          *)
(***************************************************************************)
C4_ParentOfRelations ==
  pc = "done" =>
    LET R == result[1].relations IN
    /\ Len(R) = Offset(Len(Fams) + 1)
    /\ \A i \in 1..Len(Fams) :
         LET ps == ParentsOf(Fams[i])
             cs == ChildrenOf(Fams[i])
             seg == SubSeq(R, Offset(i) + 1, Offset(i + 1))
         IN /\ Len(SelectSeq(seg, LAMBDA r : r.relationType = "parent_of"))
                 = Len(cs) * Len(ps)
            /\ \A c \in 1..Len(cs) : \A p \in 1..Len(ps) :
                 seg[MarriedCount(Fams[i]) + (c - 1) * Len(ps) + p]
                   = [from |-> <<"Person_">> \o ps[p],
                      to |-> <<"Person_">> \o cs[c],
                      relationType |-> "parent_of"]

C4_Witness ==
  /\ pc = "done"
  /\ \E i \in 1..Len(Fams) :
       /\ Len(ParentsOf(Fams[i])) = 2
       /\ Len(ChildrenOf(Fams[i])) = 2
       /\ ChildrenOf(Fams[i])[1] # ChildrenOf(Fams[i])[2]
  /\ Len(result[1].relations) = 5

(***************************************************************************)
(* C5: the married_to relations are exactly one per family that has both   *)
(* husband and wife set, in family order, directed husband -> wife; a      *)
(* family with at most one of the two set emits none.                      *)
(***************************************************************************)
RECURSIVE ExpectedMarriages(_)
ExpectedMarriages(fs) ==
  IF fs = <<>> THEN <<>>
  ELSE (IF DictHas(fs[1], HUSB) /\ DictHas(fs[1], WIFE)
        THEN << [from |-> <<"Person_">> \o DictGet(fs[1], HUSB).s,
                 to |-> <<"Person_">> \o DictGet(fs[1], WIFE).s,
                 relationType |-> "married_to"] >>
        ELSE <<>>)
       \o ExpectedMarriages(Tail(fs))

C5_MarriedTo ==
  pc = "done" =>
    SelectSeq(result[1].relations, LAMBDA r : r.relationType = "married_to")
      = ExpectedMarriages(Fams)

C5_Witness ==
  /\ pc = "done"
  /\ Len(Fams) = 2
  /\ Len(ParentsOf(Fams[1])) = 2
  /\ Len(ParentsOf(Fams[2])) = 1
  /\ Len(SelectSeq(result[1].relations,
                   LAMBDA r : r.relationType = "married_to")) = 1

(***************************************************************************)
(* C10 as stated: an individual with no level-1 NAME line with a value     *)
(* since its last declaration yields the entity Person_<id> whose first    *)
(* observation is "Name: Unknown_<id>".  Violated by the code.             *)
(***************************************************************************)
NameLineWithValue(line) ==
  /\ IntegerLevel(line)
  /\ Len(Fields(line)) > 2
  /\ IntVal(Fields(line)[1]) = 1
  /\ Fields(line)[2] = NAME

C10_NoNameLineYieldsUnknown ==
  pc = "done" =>
    \A id \in DeclaredIds :
      (\A j \in (Max(Declarations(id)) + 1)..Len(read) : ~NameLineWithValue(read[j]))
        => LET e == result[1].entities[CreationRank(id)]
           IN /\ e.name = <<"Person_">> \o id
              /\ e.observations[1] = <<"Name: ", "Unknown_">> \o id

(***************************************************************************)
(* C10 amended: an individual whose record holds no NAME attribute when    *)
(* the formatter runs (neither a scalar nor a nested mapping) yields the   *)
(* entity Person_<id> whose first observation is "Name: Unknown_<id>".     *)
(***************************************************************************)
C10_NoNameAttributeYieldsUnknown ==
  pc = "done" =>
    \A i \in 1..Len(individuals) :
      ~DictHas(heap[individuals[i].v], NAME)
        => LET e == result[1].entities[i]
           IN /\ e.name = <<"Person_">> \o individuals[i].k
              /\ e.observations[1] = <<"Name: ", "Unknown_">> \o individuals[i].k

C10_Witness ==
  /\ pc = "done"
  /\ \E i \in 1..Len(individuals) :
       /\ ~DictHas(heap[individuals[i].v], NAME)
       /\ DictHas(heap[individuals[i].v], BIRT)
       /\ Len(result[1].entities[i].observations) = 2

(***************************************************************************)
(* C11: every entity has 1 to 3 observations, none of them a placeholder:  *)
(* the first is the "Name: ..." line, a "Birth date: ..." line is there    *)
(* exactly when BIRT holds a non-empty DATE sub-tag, a "Death date: ..."   *)
(* line exactly when DEAT holds one, and birth comes before death.         *)
(***************************************************************************)
\* the non-empty DATE sub-tag under tag, <<>> when there is none
DateUnder(rec, tag) ==
  IF DictHas(rec, tag) /\ DictGet(rec, tag).t = "dict"
     /\ DictHas(DictGet(rec, tag).d, DATE)
     /\ DictGet(DictGet(rec, tag).d, DATE) # EmptyStr
  THEN <<DictGet(DictGet(rec, tag).d, DATE)>>
  ELSE <<>>

Placeholders ==
  {<<>>, <<"Name: ">>, <<"Birth date: ">>, <<"Death date: ">>,
   <<"Birth date: ", "None">>, <<"Death date: ", "None">>}

C11_ObservationsHaveNoPlaceholder ==
  pc = "done" =>
    \A i \in 1..Len(individuals) :
      LET obs == result[1].entities[i].observations
          rec == heap[individuals[i].v]
          b == DateUnder(rec, BIRT)
          d == DateUnder(rec, DEAT)
      IN /\ Len(obs) = 1 + Len(b) + Len(d)
         /\ \A j \in 1..Len(obs) : obs[j] \notin Placeholders
         /\ Head(obs[1]) = "Name: "
         /\ b # <<>> => obs[2] = <<"Birth date: ">> \o b[1]
         /\ d # <<>> => obs[Len(obs)] = <<"Death date: ">> \o d[1]
         /\ \A j \in 2..Len(obs) : Head(obs[j]) # "Name: "

C11_Witness ==
  /\ pc = "done"
  /\ \E i \in 1..Len(individuals) :
       /\ Len(result[1].entities[i].observations) = 2
       /\ Head(result[1].entities[i].observations[2]) = "Death date: "
       /\ DictHas(heap[individuals[i].v], BIRT)
       /\ DictGet(heap[individuals[i].v], BIRT).t = "dict"
       /\ DictGet(DictGet(heap[individuals[i].v], BIRT).d, DATE) = EmptyStr

(***************************************************************************)
(* Level-1 / level-2 lines and the open record, read off a consuming step  *)
(***************************************************************************)
\* the line a consuming step hands to parse_line
Line == Strip(Last(read'))

\* its level, for a line with at least two fields and an integer level
LevelIs(n) ==
  /\ IsInt(Split2(Line)[1])
  /\ Len(Split2(Line)) >= 2
  /\ IntVal(Split2(Line)[1]) = n

Tag == Split2(Line)[2]

HasRemainder == Len(Split2(Line)) > 2

Remainder == Split2(Line)[3]

OpenRecord == heap[current_entity]

IndividualOpen ==
  current_entity # 0 /\ DictGet(OpenRecord, K_type) = StrV(INDI)

FamilyOpen ==
  current_entity # 0 /\ DictGet(OpenRecord, K_type) = StrV(FAM)

(***************************************************************************)
(* C12: in an open Individual, a level-2 line whose current attribute      *)
(* holds no value or a scalar string raises no error and leaves the        *)
(* attribute holding a nested mapping in which the level-2 tag maps to the *)
(* remainder (the empty string when absent).  Violated by the code.        *)
(***************************************************************************)
C12_SubTagUnderScalarOrAbsent ==
  [][(/\ Consumes
      /\ IndividualOpen
      /\ LevelIs(2)
      /\ Truthy(current_tag)
      /\ (DictHas(OpenRecord, current_tag[1])
            => DictGet(OpenRecord, current_tag[1]).t = "str"))
       => /\ pc' = "reading"
          /\ DictHas(heap'[current_entity], current_tag[1])
          /\ DictGet(heap'[current_entity], current_tag[1]).t = "dict"
          /\ DictHas(DictGet(heap'[current_entity], current_tag[1]).d, Tag)
          /\ DictGet(DictGet(heap'[current_entity], current_tag[1]).d, Tag)
               = (IF HasRemainder THEN Remainder ELSE EmptyStr)]_vars

(***************************************************************************)
(* C13: a level-2 line in an open Individual record for which no level-1   *)
(* line of that record has set the attribute context yet is a no-op: the   *)
(* record store is unchanged and no error is raised.  Violated by the      *)
(* code.                                                                   *)
(***************************************************************************)
\* the lines consumed since the open record was declared
SinceDeclaration ==
  LET decls == {i \in 1..Len(read) :
                  IntegerLevel(read[i]) /\ Len(Fields(read[i])) >= 2
                  /\ IntVal(Fields(read[i])[1]) = 0}
  IN IF decls = {} THEN read ELSE SubSeq(read, Max(decls) + 1, Len(read))

NoContextYet ==
  \A i \in 1..Len(SinceDeclaration) :
    ~(/\ IntegerLevel(SinceDeclaration[i])
      /\ Len(Fields(SinceDeclaration[i])) >= 2
      /\ IntVal(Fields(SinceDeclaration[i])[1]) = 1)

C13_SubTagWithoutContextIsNoOp ==
  [][(Consumes /\ IndividualOpen /\ LevelIs(2) /\ NoContextYet)
       => (pc' = "reading" /\ UNCHANGED <<individuals, families, heap>>)]_vars

(***************************************************************************)
(* C14: every record stored in the individual mapping under key k has id   *)
(* k and type INDI, every record stored in the family mapping under key k  *)
(* has id k and type FAM; no level-1 or level-2 line changes a record's id *)
(* or type.  Violated by the code.                                         *)
(***************************************************************************)
C14_IdAndTypeAreFixed ==
  /\ \A i \in 1..Len(individuals) :
       /\ DictGet(heap[individuals[i].v], K_id) = StrV(individuals[i].k)
       /\ DictGet(heap[individuals[i].v], K_type) = StrV(INDI)
  /\ \A i \in 1..Len(families) :
       /\ DictGet(heap[families[i].v], K_id) = StrV(families[i].k)
       /\ DictGet(heap[families[i].v], K_type) = StrV(FAM)

(***************************************************************************)
(* C15: a level-0 line with at least two fields always ends the open       *)
(* record: with a record marker a new record becomes the open one, with    *)
(* neither marker no record is open afterwards and nothing is added to     *)
(* either mapping; while no record is open every level-1 or level-2 line   *)
(* is discarded without changing the store.                                *)
(***************************************************************************)
HasMarker == \E i \in 1..Len(Line) : Line[i] \in {"INDI", "FAM"}

C15_LevelZeroEndsRecord ==
  [][/\ (Consumes /\ LevelIs(0))
          => /\ pc' = "reading"
             /\ current_entity' # current_entity \/ current_entity' = 0
             /\ HasMarker => current_entity' = Len(heap) + 1
             /\ ~HasMarker => /\ current_entity' = 0
                              /\ UNCHANGED <<individuals, families, heap>>
     /\ (Consumes /\ current_entity = 0 /\ (LevelIs(1) \/ LevelIs(2)))
          => /\ pc' = "reading"
             /\ current_entity' = 0
             /\ UNCHANGED <<individuals, families, heap>>]_vars

C15_Witness ==
  /\ pc = "reading"
  /\ Len(read) >= 3
  /\ read[Len(read) - 2] = L_I1
  /\ read[Len(read) - 1] = L_HEAD
  /\ read[Len(read)] = L_NAME
  /\ current_entity = 0
  /\ ~DictHas(heap[DictGet(individuals, <<"I1">>)], NAME)

(***************************************************************************)
(* C16: on a level-0 line the record kind is a substring test on the whole *)
(* line: Individual exactly when INDI occurs anywhere in it, otherwise     *)
(* Family exactly when FAM occurs anywhere in it; the new record is keyed  *)
(* by the second field without its '@' and stored in the mapping of the    *)
(* detected kind only.                                                     *)
(***************************************************************************)
Occurs(marker) == \E i \in 1..Len(Line) : Line[i] = marker

Pointer == SelectSeq(Tag, LAMBDA a : a # "@")

NewRecord(kind) ==
  <<[k |-> K_id, v |-> StrV(Pointer)], [k |-> K_type, v |-> StrV(kind)]>>

\* mapping m after the step holds the new record under Pointer, at the
\* position the key had, or at the end for a new key
StoredIn(m, mNext, kind) ==
  /\ DictHas(mNext, Pointer)
  /\ heap'[DictGet(mNext, Pointer)] = NewRecord(kind)
  /\ DictGet(mNext, Pointer) = current_entity'
  /\ Len(mNext) = Len(m) + (IF DictHas(m, Pointer) THEN 0 ELSE 1)
  /\ \A i \in 1..Len(m) :
       /\ mNext[i].k = m[i].k
       /\ m[i].k # Pointer => mNext[i].v = m[i].v

C16_KindBySubstring ==
  [][(Consumes /\ LevelIs(0))
       => /\ pc' = "reading"
          /\ Occurs("INDI")
               => (StoredIn(individuals, individuals', INDI) /\ UNCHANGED families)
          /\ (~Occurs("INDI") /\ Occurs("FAM"))
               => (StoredIn(families, families', FAM) /\ UNCHANGED individuals)
          /\ (~Occurs("INDI") /\ ~Occurs("FAM"))
               => UNCHANGED <<individuals, families>>]_vars

C16_Witness ==
  /\ pc = "reading"
  /\ read # <<>>
  /\ Last(read) = L_INDI1_FAM
  /\ DictHas(individuals, <<"INDI", "1">>)
  /\ ~DictHas(families, <<"INDI", "1">>)
  /\ DictGet(heap[current_entity], K_type) = StrV(INDI)

(***************************************************************************)
(* C17: in an open Individual every level-1 line sets the current          *)
(* attribute to its tag; with a remainder the open record's value for that *)
(* tag becomes that remainder as a scalar, whatever it held before, and    *)
(* nothing else of the record changes; without a remainder the record is   *)
(* left unchanged.                                                         *)
(***************************************************************************)
C17_LevelOneSetsScalar ==
  [][(Consumes /\ IndividualOpen /\ LevelIs(1))
       => /\ pc' = "reading"
          /\ current_tag' = <<Tag>>
          /\ UNCHANGED <<individuals, families, current_entity>>
          /\ \A a \in 1..Len(heap) : a # current_entity => heap'[a] = heap[a]
          /\ Len(heap') = Len(heap)
          /\ HasRemainder
               => LET old == OpenRecord
                      new == heap'[current_entity]
                  IN /\ DictHas(new, Tag)
                     /\ DictGet(new, Tag) = StrV(Remainder)
                     /\ Len(new) = Len(old) + (IF DictHas(old, Tag) THEN 0 ELSE 1)
                     /\ \A i \in 1..Len(old) :
                          /\ new[i].k = old[i].k
                          /\ old[i].k # Tag => new[i].v = old[i].v
          /\ ~HasRemainder => heap' = heap]_vars

C17_Witness ==
  /\ pc = "reading"
  /\ Len(read) >= 3
  /\ read[Len(read) - 2] = L_NAME_novalue
  /\ read[Len(read) - 1] = L_DATE
  /\ read[Len(read)] = L_NAME
  /\ current_entity # 0
  /\ DictHas(heap[current_entity], NAME)
  /\ DictGet(heap[current_entity], NAME) = StrV(<<"John", SP, "/Doe/">>)

(***************************************************************************)
(* C18: while a Family record is open its children_ids only grows at the   *)
(* end: a level-1 child line with a pointer appends the pointer without    *)
(* its '@', a husband or wife line overwrites husband_id / wife_id only,   *)
(* any other level-1 line leaves the family record unchanged.              *)
(***************************************************************************)
FamilyRecordOpen ==
  \E i \in 1..Len(families) : families[i].v = current_entity

HusbandOf(f) == IF DictHas(f, HUSB) THEN <<DictGet(f, HUSB)>> ELSE <<>>

WifeOf(f) == IF DictHas(f, WIFE) THEN <<DictGet(f, WIFE)>> ELSE <<>>

IsPrefix(a, b) == Len(a) <= Len(b) /\ SubSeq(b, 1, Len(a)) = a

C18_ChildrenAppendOnly ==
  /\ [][(Consumes /\ FamilyRecordOpen /\ LevelIs(1))
          => LET f == OpenRecord
                 g == heap'[current_entity]
                 ptr == SelectSeq(Remainder, LAMBDA a : a # "@")
             IN /\ pc' = "reading"
                /\ UNCHANGED <<individuals, families, current_entity>>
                /\ (HasRemainder /\ Tag = CHIL)
                     => /\ ChildrenOf(g) = Append(ChildrenOf(f), ptr)
                        /\ HusbandOf(g) = HusbandOf(f)
                        /\ WifeOf(g) = WifeOf(f)
                /\ (HasRemainder /\ Tag = HUSB)
                     => /\ HusbandOf(g) = <<StrV(ptr)>>
                        /\ ChildrenOf(g) = ChildrenOf(f)
                        /\ WifeOf(g) = WifeOf(f)
                /\ (HasRemainder /\ Tag = WIFE)
                     => /\ WifeOf(g) = <<StrV(ptr)>>
                        /\ ChildrenOf(g) = ChildrenOf(f)
                        /\ HusbandOf(g) = HusbandOf(f)
                /\ (~HasRemainder \/ Tag \notin {CHIL, HUSB, WIFE}) => g = f]_vars
  /\ [][(FamilyRecordOpen /\ current_entity' = current_entity)
          => IsPrefix(ChildrenOf(OpenRecord), ChildrenOf(heap'[current_entity]))]_vars

C18_Witness ==
  /\ pc = "reading"
  /\ Len(read) >= 4
  /\ read[Len(read) - 1] = L_HUSB2
  /\ read[Len(read)] = L_CHIL4
  /\ current_entity # 0
  /\ ChildrenOf(heap[current_entity]) = << <<"I3">>, <<"I4">> >>
  /\ HusbandOf(heap[current_entity]) = <<StrV(<<"I2">>)>>

(***************************************************************************)
(* C19: lines of depth 3 or more in any state, depth-2 lines while a       *)
(* Family record is open, and depth-1 or depth-2 lines while no record is  *)
(* open are no-ops: both mappings, the records, the open record and the    *)
(* current attribute are unchanged and no error is raised.                 *)
(***************************************************************************)
DepthAtLeast(n) == IsInt(Split2(Line)[1]) /\ IntVal(Split2(Line)[1]) >= n

C19_IgnoredLinesAreNoOps ==
  [][(/\ Consumes
      /\ \/ DepthAtLeast(3)
         \/ LevelIs(2) /\ (FamilyRecordOpen \/ FamilyOpen)
         \/ (LevelIs(1) \/ LevelIs(2)) /\ current_entity = 0)
       => (pc' = "reading" /\ UNCHANGED <<parserVars, stream, raised>>)]_vars

C19_Witness ==
  /\ pc = "reading"
  /\ Len(read) >= 3
  /\ read[Len(read) - 2] = L_I1
  /\ read[Len(read) - 1] = L_BIRT_trailing
  /\ read[Len(read)] = L_deep
  /\ current_tag = <<BIRT>>
  /\ heap[current_entity]
       = <<[k |-> K_id, v |-> StrV(<<"I1">>)], [k |-> K_type, v |-> StrV(INDI)]>>

(***************************************************************************)
(* C20: the formatter is a pure function of the record store: the step     *)
(* that runs it changes neither mapping, nor any record, nor the open      *)
(* record, nor the current attribute; run again on the state it leaves it  *)
(* returns the same entities and relations, and its result does not depend *)
(* on the open record or the current attribute.                            *)
(***************************************************************************)
C20_FormatterIsPure ==
  /\ [][(formatRuns' # formatRuns) => UNCHANGED parserVars]_vars
  /\ [](pc = "done"
          => LET again == format_knowledge(Self)
                 bare == format_knowledge([Self EXCEPT !.current_entity = 0,
                                                       !.current_tag = <<>>])
             IN /\ again.exc = NoExc
                /\ result = <<[entities |-> again.entities,
                               relations |-> again.relations]>>
                /\ bare = again)

C20_Witness ==
  /\ pc = "done"
  /\ formatRuns = 1
  /\ current_entity # 0
  /\ current_tag # <<>>
  /\ result[1].entities # <<>>
  /\ result[1].relations # <<>>

(***************************************************************************)
(* C21: whenever a record is open it is the very record stored in its      *)
(* mapping under the id of the most recent level-0 record line; a parsed   *)
(* line changes no record of either mapping but the open one, and removes  *)
(* no key from either mapping.                                             *)
(***************************************************************************)
\* index in read of the most recent level-0 line with two fields, or 0
LastLevelZero ==
  LET zs == {i \in 1..Len(read) :
               IntegerLevel(read[i]) /\ Len(Fields(read[i])) >= 2
               /\ IntVal(Fields(read[i])[1]) = 0}
  IN IF zs = {} THEN 0 ELSE Max(zs)

OpenIsStored ==
  LET k == LastLevelZero IN
  IF k = 0 THEN current_entity = 0
  ELSE LET text == Strip(read[k])
           id == SelectSeq(Fields(read[k])[2], LAMBDA a : a # "@")
       IN IF \E i \in 1..Len(text) : text[i] = "INDI"
          THEN /\ current_entity # 0
               /\ \E i \in 1..Len(individuals) :
                    individuals[i].k = id /\ individuals[i].v = current_entity
          ELSE IF \E i \in 1..Len(text) : text[i] = "FAM"
          THEN /\ current_entity # 0
               /\ \E i \in 1..Len(families) :
                    families[i].k = id /\ families[i].v = current_entity
          ELSE current_entity = 0

\* mapping m keeps its keys, and every record but the open one is the same
\* object with the same content
OthersKept(m, mNext) ==
  /\ Len(mNext) >= Len(m)
  /\ \A i \in 1..Len(m) :
       /\ mNext[i].k = m[i].k
       /\ mNext[i].v # current_entity'
            => (mNext[i].v = m[i].v /\ heap'[mNext[i].v] = heap[m[i].v])

C21_OnlyOpenRecordChanges ==
  /\ [](pc \in {"start", "reading"} => OpenIsStored)
  /\ [][Consumes => /\ OthersKept(individuals, individuals')
                    /\ OthersKept(families, families')]_vars

C21_Witness ==
  /\ pc = "reading"
  /\ Len(individuals) = 2
  /\ current_entity = individuals[2].v
  /\ DictHas(heap[individuals[1].v], NAME)
  /\ DictHas(heap[individuals[2].v], NAME)

(***************************************************************************)
(* C22                                                                     *)
(***************************************************************************)
\* what process_gedcom_file obtains for a file of lines ls: a parser is
\* constructed, parse_file feeds it every line and formats the store
FreshParse(ls) ==
  LET P == RunFrom(NewParser, ls)
      r == format_knowledge(P)
  IN  IF P.exc # NoExc THEN [exc |-> P.exc, graph |-> <<>>]
      ELSE IF r.exc # NoExc THEN [exc |-> r.exc, graph |-> <<>>]
      ELSE [exc |-> NoExc,
            graph |-> <<[entities |-> r.entities, relations |-> r.relations]>>]

\* C22: the outcome of a parse_file call depends only on the lines of the
\* file given to that call: whatever files the instance parsed before, the
\* call returns the (entities, relations) that a freshly constructed parser
\* returns for the same lines, and fails only where that parser fails.
C22_ReusedParserMatchesFresh ==
  /\ pc = "done" => /\ FreshParse(read).exc = NoExc
                    /\ result = FreshParse(read).graph
  /\ (pc = "failed" /\ raised[1].in # "open") =>
       FreshParse(read).exc = raised[1].exc

====
